---- MODULE Spec2Model ----
(***************************************************************************)
(* ITU368_grwave.py: the Python wrapper around the LFMF groundwave engine. *)
(*                                                                         *)
(*   run                 one synchronous engine call, status -> tuple or   *)
(*                       LFMFError                                         *)
(*   evaluate_distances  a sweep over distances on a ThreadPoolExecutor,   *)
(*                       collected in input order with executor.map        *)
(*                                                                         *)
(* Units: lengths, power, refractivity, permittivity and conductivity are  *)
(* integers in the units of the docstring; f__mhz is counted in hundredths *)
(* of a MHz so that the lower bound 0.01 MHz is the integer 1.             *)
(***************************************************************************)
EXTENDS Integers, Sequences, FiniteSets, TLC

\* ------------------------------------------------------------------ bounds
MaxLen == 3
MaxWorkers == 2

\* ------------------------------------------------- ranges of the docstring
H_MAX == 50
F_MIN == 1
F_MAX == 3000
N_S_MIN == 250
N_S_MAX == 400
D_MAX == 10000

\* -------------------------------------------------------- engine statuses
SUCCESS == 0
ERROR_BASE == 1000
ERROR_LAST == 1008

\* statuses the engine may give a parameter set that passes validation:
\* success, or an engine-internal failure outside 1000..1008
InternalStatuses == {0, 999, 1009}
BatchInternalStatuses == {0, 1009}

\* ------------------------------------------------------------ input values
TxHeights == {-1, 0, 51}
RxHeights == {50, 51}
Frequencies == {0, 1, 3001}
Powers == {0, 1}
Refractivities == {249, 250}
DistanceValues == {1, 2, 10001}
ValidDistances == {d \in DistanceValues : d <= D_MAX}
Permittivities == {0, 1}
Conductivities == {0, 1}
\* polarizations as hi * 2^32 + lo: 0, 1, 2 and 2^32
Polarizations == {[hi |-> 0, lo |-> 0], [hi |-> 0, lo |-> 1], [hi |-> 0, lo |-> 2],
                  [hi |-> 1, lo |-> 0]}

ResultIndices == {-1, 0, 3, 4}

\* ------------------------------------------------------------------ Result
FieldNames == <<"A_btl__db", "E_dBuVm", "P_rx__dbm", "method">>

\* Result(): a freshly constructed ctypes structure is zero-filled
Result == [A_btl__db |-> <<"zero">>, E_dBuVm |-> <<"zero">>,
           P_rx__dbm |-> <<"zero">>, method |-> <<"zero">>]

\* the not-a-number sentinel of compute_loss
NaN == <<"nan">>

\* ------------------------------------------------------------------ engine
\* The engine's own sequential range check over the nine positional
\* arguments: the code of the first argument out of range, 0 when none is.
ValidateInput(a) ==
    IF a[1] < 0 \/ a[1] > H_MAX THEN 1000
    ELSE IF a[2] < 0 \/ a[2] > H_MAX THEN 1001
    ELSE IF a[3] < F_MIN \/ a[3] > F_MAX THEN 1002
    ELSE IF a[4] <= 0 THEN 1003
    ELSE IF a[5] < N_S_MIN \/ a[5] > N_S_MAX THEN 1004
    ELSE IF a[6] > D_MAX THEN 1005
    ELSE IF a[7] < 1 THEN 1006
    ELSE IF a[8] <= 0 THEN 1007
    ELSE IF a[9] \notin {0, 1} THEN 1008
    ELSE SUCCESS

\* The status the engine returns for the arguments a: a deterministic
\* function of a; int gives the status of the valid parameter sets.
LFMF(a, int) ==
    IF ValidateInput(a) # SUCCESS THEN ValidateInput(a) ELSE int[a[6]]

\* The four fields the engine computes from the arguments a.
LFMFRecord(a) ==
    [A_btl__db |-> <<"A_btl__db", a>>, E_dBuVm |-> <<"E_dBuVm", a>>,
     P_rx__dbm |-> <<"P_rx__dbm", a>>, method |-> <<"method", a>>]

\* What the engine may leave in the caller's record next to a status: the
\* full record on success; on failure the record is untouched or partly
\* written.
LFMFWrites(a, status, res) ==
    IF status = SUCCESS THEN {LFMFRecord(a)}
    ELSE {res, [res EXCEPT !.A_btl__db = <<"A_btl__db", a>>]}

\* --------------------------------------------------------------------- run
\* An integer of any size is written hi * 2^32 + lo with lo its signed low
\* 32-bit word. c_int, the declared type of the engine's ninth argument,
\* keeps the low word and drops the rest without an overflow check.
PyInt(hi, lo) == [hi |-> hi, lo |-> lo]

c_int(v) == v.lo

\* the positional argument list run hands to the engine
CallArgs(p) ==
    <<p.h_tx__meter, p.h_rx__meter, p.f__mhz, p.P_tx__watt, p.N_s,
      p.d__km, p.epsilon, p.sigma, c_int(p.pol)>>

error_messagesShifted ==
    [c \in ERROR_BASE..ERROR_LAST |->
        CASE c = 1000 -> "VALIDATION ERROR: h_tx__meter out of range"
          [] c = 1001 -> "VALIDATION ERROR: h_rx__meter out of range"
          [] c = 1002 -> "VALIDATION ERROR: f__mhz out of range"
          [] c = 1003 -> "VALIDATION ERROR: P_tx__watt out of range"
          [] c = 1004 -> "VALIDATION ERROR: N_s out of range"
          [] c = 1005 -> "VALIDATION ERROR: epsilon out of range"
          [] c = 1006 -> "VALIDATION ERROR: d__km out of range"
          [] c = 1007 -> "VALIDATION ERROR: sigma out of range"
          [] c = 1008 -> "VALIDATION ERROR: invalid value for pol"]

error_messages ==
    [c \in ERROR_BASE..ERROR_LAST |->
        CASE c = 1000 -> "VALIDATION ERROR: h_tx__meter out of range"
          [] c = 1001 -> "VALIDATION ERROR: h_rx__meter out of range"
          [] c = 1002 -> "VALIDATION ERROR: f__mhz out of range"
          [] c = 1003 -> "VALIDATION ERROR: P_tx__watt out of range"
          [] c = 1004 -> "VALIDATION ERROR: N_s out of range"
          [] c = 1005 -> "VALIDATION ERROR: d__km out of range"
          [] c = 1006 -> "VALIDATION ERROR: epsilon out of range"
          [] c = 1007 -> "VALIDATION ERROR: sigma out of range"
          [] c = 1008 -> "VALIDATION ERROR: invalid value for pol"]

\* error_messages.get(status, "UNKNOWN ERROR")
error_message(status) ==
    IF status \in DOMAIN error_messages THEN error_messages[status]
    ELSE "UNKNOWN ERROR"

NoOutcome == [kind |-> "none", value |-> <<>>, exc |-> "", code |-> 0, msg |-> ""]

Return(v) == [kind |-> "return", value |-> v, exc |-> "", code |-> 0, msg |-> ""]

Raise(e, c, m) == [kind |-> "raise", value |-> <<>>, exc |-> e, code |-> c, msg |-> m]

runStatusCheckWrongField(status, res) ==
    IF status = SUCCESS
    THEN Return(<<res.A_btl__db, res.E_dBuVm, res.P_rx__dbm, res.P_rx__dbm>>)
    ELSE Raise("LFMFError", status, error_message(status))

runStatusCheckLenient(status, res) ==
    IF status = SUCCESS \/ status \notin DOMAIN error_messages
    THEN Return(<<res.A_btl__db, res.E_dBuVm, res.P_rx__dbm, res.method>>)
    ELSE Raise("LFMFError", status, error_message(status))

\* the status check of run: the four-field tuple on 0, LFMFError otherwise
runStatusCheck(status, res) ==
    IF status = SUCCESS
    THEN Return(<<res.A_btl__db, res.E_dBuVm, res.P_rx__dbm, res.method>>)
    ELSE Raise("LFMFError", status, error_message(status))

VARIABLES
    internal,   \* the engine: status of each valid distance
    args,       \* run: the parameter record of the single evaluation
    r_pc,       \* run: "off", "start", "engine", "check", "done"
    r_call,     \* run: the argument list in the engine
    r_res,      \* run: the Result structure of this call
    r_status,   \* run: the status the engine returned
    r_out,      \* run: what run gave its caller
    r_calls     \* run: number of engine invocations

VARIABLES
    base,         \* evaluate_distances: the eight fixed parameters
    distances,    \* evaluate_distances: the sweep sequence
    result_index, \* evaluate_distances: the selected field
    max_workers,  \* evaluate_distances: the pool size
    pc,           \* caller thread: "off", "start", "submit", "collect",
                  \*   "cancel", "shutdown", "returned", "raised"
    submitted,    \* number of elements handed to the executor
    queue,        \* the executor's work queue (element indices, FIFO)
    fut,          \* the future of each element: state and outcome
    nxt,          \* position the result iterator waits for
    cj,           \* position the iterator's cleanup cancels next
    results,      \* the list built from the result iterator
    exc,          \* the exception leaving evaluate_distances, if any
    w_pc,         \* worker: "idle", "engine", "check"
    w_item,       \* worker: the element it evaluates
    w_call,       \* worker: the argument list in the engine
    w_res,        \* worker: the Result structure of its run call
    w_status,     \* worker: the status the engine returned
    calls,        \* engine invocations per element
    diag          \* the lines printed by compute_loss, in order

rvars == <<args, r_pc, r_call, r_res, r_status, r_out, r_calls>>

reqvars == <<base, distances, result_index, max_workers>>

mainvars == <<pc, submitted, nxt, cj, results, exc>>

workvars == <<w_pc, w_item, w_call, w_res, w_status>>

bvars == <<reqvars, mainvars, queue, fut, workvars, calls, diag>>

vars == <<internal, rvars, bvars>>

Workers == 1..MaxWorkers

N == Len(distances)

GoodBase ==
    [h_tx__meter |-> 0, h_rx__meter |-> 50, f__mhz |-> 1, P_tx__watt |-> 1,
     N_s |-> 250, epsilon |-> 1, sigma |-> 1, pol |-> PyInt(0, 1)]

Baselines ==
    {GoodBase, [GoodBase EXCEPT !.sigma = 0]}

Sweeps == UNION {[1..n -> DistanceValues] : n \in 0..MaxLen}

\* the batch side while a single evaluation is modelled
BatchOff ==
    /\ base = GoodBase
    /\ distances = <<>>
    /\ result_index = 0
    /\ max_workers = 1
    /\ pc = "off"
    /\ submitted = 0
    /\ queue = <<>>
    /\ fut = <<>>
    /\ nxt = 1
    /\ cj = 0
    /\ results = <<>>
    /\ exc = NoOutcome
    /\ w_pc = [w \in Workers |-> "idle"]
    /\ w_item = [w \in Workers |-> 0]
    /\ w_call = [w \in Workers |-> <<>>]
    /\ w_res = [w \in Workers |-> Result]
    /\ w_status = [w \in Workers |-> SUCCESS]
    /\ calls = <<>>
    /\ diag = <<>>

Parameters ==
    [h_tx__meter : TxHeights, h_rx__meter : RxHeights, f__mhz : Frequencies,
     P_tx__watt : Powers, N_s : Refractivities, d__km : DistanceValues,
     epsilon : Permittivities, sigma : Conductivities, pol : Polarizations]

InitRun ==
    /\ internal \in [ValidDistances -> InternalStatuses]
    /\ args \in Parameters
    /\ r_pc = "start"
    /\ r_call = <<>>
    /\ r_res = Result
    /\ r_status = SUCCESS
    /\ r_out = NoOutcome
    /\ r_calls = 0
    /\ BatchOff

\* res = Result(); status = self.lfmf_lib.LFMF(..., byref(res)): the call
\* enters the engine
RunCall ==
    /\ r_pc = "start"
    /\ r_res' = Result
    /\ r_call' = CallArgs(args)
    /\ r_calls' = r_calls + 1
    /\ r_pc' = "engine"
    /\ UNCHANGED <<internal, args, r_status, r_out, bvars>>

\* the engine returns its status and has written the record
RunEngineReturn ==
    /\ r_pc = "engine"
    /\ r_status' = LFMF(r_call, internal)
    /\ r_res' \in LFMFWrites(r_call, LFMF(r_call, internal), r_res)
    /\ r_pc' = "check"
    /\ UNCHANGED <<internal, args, r_call, r_out, r_calls, bvars>>

\* if status == 0: return (...) else: raise LFMFError(...)
RunCheck ==
    /\ r_pc = "check"
    /\ r_out' = runStatusCheck(r_status, r_res)
    /\ r_pc' = "done"
    /\ UNCHANGED <<internal, args, r_call, r_res, r_status, r_calls, bvars>>

RunOff ==
    /\ args = GoodBase @@ [d__km |-> 1]
    /\ r_pc = "off"
    /\ r_call = <<>>
    /\ r_res = Result
    /\ r_status = SUCCESS
    /\ r_out = NoOutcome
    /\ r_calls = 0

\* ------------------------------------------------------ evaluate_distances
\* t[i] for a Python tuple t of four elements: indices -4..3, IndexError
\* outside
InRange(i) == i >= 0 - 4 /\ i <= 3

TupleIndex(t, i) == IF i >= 0 THEN t[i + 1] ELSE t[i + 5]

ElementArgsStale(b, d) == b @@ [d__km |-> 1]

ElementArgsAlsoPower(b, d) == [b EXCEPT !.P_tx__watt = d] @@ [d__km |-> d]

\* the parameter record compute_loss(d) evaluates
ElementArgs(b, d) == b @@ [d__km |-> d]

compute_lossFirst(o, ri) ==
    IF o.kind = "return"
    THEN IF InRange(ri) THEN Return(TupleIndex(o.value, 0))
         ELSE Raise("IndexError", 0, "tuple index out of range")
    ELSE IF o.exc = "LFMFError" THEN Return(NaN)
    ELSE o

compute_lossNoCatch(o, ri) ==
    IF o.kind = "return"
    THEN IF InRange(ri) THEN Return(TupleIndex(o.value, ri))
         ELSE Raise("IndexError", 0, "tuple index out of range")
    ELSE o

compute_lossCatchAll(o, ri) ==
    IF o.kind = "return"
    THEN IF InRange(ri) THEN Return(TupleIndex(o.value, ri))
         ELSE Return(NaN)
    ELSE Return(NaN)

\* compute_loss after run has come back with outcome o: the selected field,
\* the sentinel for an LFMFError, any other exception passed on
compute_loss(o, ri) ==
    IF o.kind = "return"
    THEN IF InRange(ri) THEN Return(TupleIndex(o.value, ri))
         ELSE Raise("IndexError", 0, "tuple index out of range")
    ELSE IF o.exc = "LFMFError" THEN Return(NaN)
    ELSE o

PrintedAlways(d, o) == <<[d |-> d, code |-> o.code, msg |-> o.msg]>>

\* what compute_loss prints for element value d and outcome o of run
Printed(d, o) ==
    IF o.kind = "raise" /\ o.exc = "LFMFError"
    THEN <<[d |-> d, code |-> o.code, msg |-> o.msg]>>
    ELSE <<>>

InitBatch ==
    /\ internal \in [ValidDistances -> BatchInternalStatuses]
    /\ RunOff
    /\ base \in Baselines
    /\ distances \in Sweeps
    /\ result_index \in ResultIndices
    /\ max_workers \in 0..MaxWorkers
    /\ pc = "start"
    /\ submitted = 0
    /\ queue = <<>>
    /\ fut = [i \in 1..Len(distances) |-> [state |-> "none", out |-> NoOutcome]]
    /\ nxt = 1
    /\ cj = 0
    /\ results = <<>>
    /\ exc = NoOutcome
    /\ w_pc = [w \in Workers |-> "idle"]
    /\ w_item = [w \in Workers |-> 0]
    /\ w_call = [w \in Workers |-> <<>>]
    /\ w_res = [w \in Workers |-> Result]
    /\ w_status = [w \in Workers |-> SUCCESS]
    /\ calls = [i \in 1..Len(distances) |-> 0]
    /\ diag = <<>>

\* with ThreadPoolExecutor(max_workers=max_workers): a pool size below 1 is
\* rejected by the constructor
Enter ==
    /\ pc = "start"
    /\ IF max_workers <= 0
       THEN /\ exc' = Raise("ValueError", 0, "max_workers must be greater than 0")
            /\ pc' = "raised"
       ELSE /\ exc' = exc
            /\ pc' = IF N = 0 THEN "collect" ELSE "submit"
    /\ UNCHANGED <<internal, rvars, reqvars, submitted, nxt, cj, results,
                   queue, fut, workvars, calls, diag>>

\* executor.map submits the elements one by one, in input order, before it
\* hands back the result iterator
Submit ==
    /\ pc = "submit"
    /\ submitted < N
    /\ submitted' = submitted + 1
    /\ queue' = Append(queue, submitted + 1)
    /\ fut' = [fut EXCEPT ![submitted + 1].state = "pending"]
    /\ pc' = IF submitted + 1 = N THEN "collect" ELSE "submit"
    /\ UNCHANGED <<internal, rvars, reqvars, nxt, cj, results, exc,
                   workvars, calls, diag>>

TakeUnbounded(w) ==
    /\ w_pc[w] = "idle"
    /\ queue # <<>>
    /\ fut[Head(queue)].state = "pending"
    /\ queue' = Tail(queue)
    /\ fut' = [fut EXCEPT ![Head(queue)].state = "running"]
    /\ w_item' = [w_item EXCEPT ![w] = Head(queue)]
    /\ w_res' = [w_res EXCEPT ![w] = Result]
    /\ w_call' = [w_call EXCEPT ![w] =
                      CallArgs(ElementArgs(base, distances[Head(queue)]))]
    /\ calls' = [calls EXCEPT ![Head(queue)] = @ + 1]
    /\ w_pc' = [w_pc EXCEPT ![w] = "engine"]
    /\ UNCHANGED <<internal, rvars, reqvars, mainvars, w_status, diag>>

\* a pool thread takes the oldest work item and starts compute_loss: run
\* allocates its Result and enters the engine
Take(w) ==
    /\ w <= max_workers
    /\ w_pc[w] = "idle"
    /\ queue # <<>>
    /\ fut[Head(queue)].state = "pending"
    /\ queue' = Tail(queue)
    /\ fut' = [fut EXCEPT ![Head(queue)].state = "running"]
    /\ w_item' = [w_item EXCEPT ![w] = Head(queue)]
    /\ w_res' = [w_res EXCEPT ![w] = Result]
    /\ w_call' = [w_call EXCEPT ![w] =
                      CallArgs(ElementArgs(base, distances[Head(queue)]))]
    /\ calls' = [calls EXCEPT ![Head(queue)] = @ + 1]
    /\ w_pc' = [w_pc EXCEPT ![w] = "engine"]
    /\ UNCHANGED <<internal, rvars, reqvars, mainvars, w_status, diag>>

\* a pool thread drops a work item whose future was cancelled
TakeCancelled(w) ==
    /\ w <= max_workers
    /\ w_pc[w] = "idle"
    /\ queue # <<>>
    /\ fut[Head(queue)].state = "cancelled"
    /\ queue' = Tail(queue)
    /\ UNCHANGED <<internal, rvars, reqvars, mainvars, fut, workvars, calls, diag>>

EngineReturnRetry(w) ==
    /\ w_pc[w] = "engine"
    /\ w_status' = [w_status EXCEPT ![w] = LFMF(w_call[w], internal)]
    /\ \E r \in LFMFWrites(w_call[w], LFMF(w_call[w], internal), w_res[w]) :
           w_res' = [w_res EXCEPT ![w] = r]
    /\ IF LFMF(w_call[w], internal) # SUCCESS /\ calls[w_item[w]] < 2
       THEN /\ calls' = [calls EXCEPT ![w_item[w]] = @ + 1]
            /\ w_pc' = w_pc
       ELSE /\ calls' = calls
            /\ w_pc' = [w_pc EXCEPT ![w] = "check"]
    /\ UNCHANGED <<internal, rvars, reqvars, mainvars, queue, fut, w_item,
                   w_call, diag>>

EngineReturnShared(w) ==
    /\ w_pc[w] = "engine"
    /\ w_status' = [w_status EXCEPT ![w] = LFMF(w_call[w], internal)]
    /\ \E r \in LFMFWrites(w_call[w], LFMF(w_call[w], internal), w_res[w]) :
           w_res' = [v \in Workers |-> r]
    /\ w_pc' = [w_pc EXCEPT ![w] = "check"]
    /\ UNCHANGED <<internal, rvars, reqvars, mainvars, queue, fut, w_item,
                   w_call, calls, diag>>

\* the engine returns to the worker's run call
EngineReturn(w) ==
    /\ w_pc[w] = "engine"
    /\ w_status' = [w_status EXCEPT ![w] = LFMF(w_call[w], internal)]
    /\ \E r \in LFMFWrites(w_call[w], LFMF(w_call[w], internal), w_res[w]) :
           w_res' = [w_res EXCEPT ![w] = r]
    /\ w_pc' = [w_pc EXCEPT ![w] = "check"]
    /\ UNCHANGED <<internal, rvars, reqvars, mainvars, queue, fut, w_item,
                   w_call, calls, diag>>

FinishDropsFailure(w) ==
    /\ w_pc[w] = "check"
    /\ LET o == runStatusCheck(w_status[w], w_res[w])
           i == w_item[w]
       IN /\ fut' = IF o.kind = "raise" THEN fut
                    ELSE [fut EXCEPT ![i] =
                             [state |-> "finished",
                              out |-> compute_loss(o, result_index)]]
          /\ diag' = diag \o Printed(distances[i], o)
    /\ w_pc' = [w_pc EXCEPT ![w] = "idle"]
    /\ w_item' = [w_item EXCEPT ![w] = 0]
    /\ w_call' = [w_call EXCEPT ![w] = <<>>]
    /\ w_res' = [w_res EXCEPT ![w] = Result]
    /\ w_status' = [w_status EXCEPT ![w] = SUCCESS]
    /\ UNCHANGED <<internal, rvars, reqvars, mainvars, queue, calls>>

\* run checks the status, compute_loss selects the field or prints and gives
\* the sentinel, and the pool thread stores the outcome in the future; the
\* locals of the finished call are gone
Finish(w) ==
    /\ w_pc[w] = "check"
    /\ LET o == runStatusCheck(w_status[w], w_res[w])
           i == w_item[w]
       IN /\ fut' = [fut EXCEPT ![i] =
                        [state |-> "finished", out |-> compute_loss(o, result_index)]]
          /\ diag' = diag \o Printed(distances[i], o)
    /\ w_pc' = [w_pc EXCEPT ![w] = "idle"]
    /\ w_item' = [w_item EXCEPT ![w] = 0]
    /\ w_call' = [w_call EXCEPT ![w] = <<>>]
    /\ w_res' = [w_res EXCEPT ![w] = Result]
    /\ w_status' = [w_status EXCEPT ![w] = SUCCESS]
    /\ UNCHANGED <<internal, rvars, reqvars, mainvars, queue, calls>>

CollectUnordered ==
    /\ pc = "collect"
    /\ nxt <= N
    /\ \E j \in nxt..N :
          /\ fut[j].state = "finished"
          /\ IF fut[j].out.kind = "return"
             THEN /\ results' = Append(results, fut[j].out.value)
                  /\ nxt' = nxt + 1
                  /\ UNCHANGED <<pc, cj, exc>>
             ELSE /\ exc' = fut[j].out
                  /\ cj' = N
                  /\ pc' = IF nxt = N THEN "shutdown" ELSE "cancel"
                  /\ UNCHANGED <<results, nxt>>
    /\ UNCHANGED <<internal, rvars, reqvars, submitted, queue, fut, workvars,
                   calls, diag>>

CollectSkipNaN ==
    /\ pc = "collect"
    /\ nxt <= N
    /\ fut[nxt].state = "finished"
    /\ IF fut[nxt].out.kind = "return"
       THEN /\ results' = IF fut[nxt].out.value = NaN THEN results
                          ELSE Append(results, fut[nxt].out.value)
            /\ nxt' = nxt + 1
            /\ UNCHANGED <<pc, cj, exc>>
       ELSE /\ exc' = fut[nxt].out
            /\ cj' = N
            /\ pc' = IF nxt = N THEN "shutdown" ELSE "cancel"
            /\ UNCHANGED <<results, nxt>>
    /\ UNCHANGED <<internal, rvars, reqvars, submitted, queue, fut, workvars,
                   calls, diag>>

CollectFailFast ==
    /\ pc = "collect"
    /\ nxt <= N
    /\ fut[nxt].state = "finished"
    /\ IF fut[nxt].out.kind = "return" /\ fut[nxt].out.value # NaN
       THEN /\ results' = Append(results, fut[nxt].out.value)
            /\ nxt' = nxt + 1
            /\ UNCHANGED <<pc, cj, exc>>
       ELSE /\ exc' = fut[nxt].out
            /\ cj' = N
            /\ pc' = IF nxt = N THEN "shutdown" ELSE "cancel"
            /\ UNCHANGED <<results, nxt>>
    /\ UNCHANGED <<internal, rvars, reqvars, submitted, queue, fut, workvars,
                   calls, diag>>

\* list(...) takes the next result from the iterator, in input order: the
\* value is appended, an exception leaves the iterator
Collect ==
    /\ pc = "collect"
    /\ nxt <= N
    /\ fut[nxt].state = "finished"
    /\ IF fut[nxt].out.kind = "return"
       THEN /\ results' = Append(results, fut[nxt].out.value)
            /\ nxt' = nxt + 1
            /\ UNCHANGED <<pc, cj, exc>>
       ELSE /\ exc' = fut[nxt].out
            /\ cj' = N
            /\ pc' = IF nxt = N THEN "shutdown" ELSE "cancel"
            /\ UNCHANGED <<results, nxt>>
    /\ UNCHANGED <<internal, rvars, reqvars, submitted, queue, fut, workvars,
                   calls, diag>>

\* the iterator is exhausted: the with block is left
CollectDone ==
    /\ pc = "collect"
    /\ nxt > N
    /\ pc' = "shutdown"
    /\ UNCHANGED <<internal, rvars, reqvars, submitted, nxt, cj, results, exc,
                   queue, fut, workvars, calls, diag>>

\* the iterator's cleanup after an exception: the futures not yet taken are
\* cancelled, last first; only a pending future can be cancelled
Cancel ==
    /\ pc = "cancel"
    /\ cj > nxt
    /\ fut' = IF fut[cj].state = "pending"
              THEN [fut EXCEPT ![cj].state = "cancelled"] ELSE fut
    /\ cj' = cj - 1
    /\ pc' = IF cj - 1 = nxt THEN "shutdown" ELSE "cancel"
    /\ UNCHANGED <<internal, rvars, reqvars, submitted, nxt, results, exc,
                   queue, workvars, calls, diag>>

\* leaving the with block: shutdown(wait=True) joins the pool threads, which
\* end once the queue is drained; then the list is returned or the
\* exception goes on to the caller
Shutdown ==
    /\ pc = "shutdown"
    /\ queue = <<>>
    /\ \A w \in Workers : w_pc[w] = "idle"
    /\ pc' = IF exc.kind = "raise" THEN "raised" ELSE "returned"
    /\ UNCHANGED <<internal, rvars, reqvars, submitted, nxt, cj, results, exc,
                   queue, fut, workvars, calls, diag>>

\* a program either makes one single evaluation or one batch evaluation
Init == InitRun \/ InitBatch

Next ==
    \/ RunCall
    \/ RunEngineReturn
    \/ RunCheck
    \/ Enter
    \/ Submit
    \/ \E w \in Workers : Take(w)
    \/ \E w \in Workers : TakeCancelled(w)
    \/ \E w \in Workers : EngineReturn(w)
    \/ \E w \in Workers : Finish(w)
    \/ Collect
    \/ CollectDone
    \/ Cancel
    \/ Shutdown

Spec == Init /\ [][Next]_vars

\* the steps of the caller thread and of pool thread w
CallerStep == Enter \/ Submit \/ Collect \/ CollectDone \/ Cancel \/ Shutdown

WorkerStep(w) == Take(w) \/ TakeCancelled(w) \/ EngineReturn(w) \/ Finish(w)

\* every engine call returns and every thread that can run gets to run
Fairness ==
    /\ WF_vars(CallerStep)
    /\ \A w \in Workers : WF_vars(WorkerStep(w))

\* the batch evaluations followed to their end: one baseline, a selector
\* inside and one outside the tuple, every sweep and every pool size
InitFair ==
    /\ InitBatch
    /\ base = GoodBase
    /\ result_index \in {0, 4}

NextBatch ==
    \/ Enter
    \/ Submit
    \/ \E w \in Workers : Take(w)
    \/ \E w \in Workers : TakeCancelled(w)
    \/ \E w \in Workers : EngineReturn(w)
    \/ \E w \in Workers : Finish(w)
    \/ Collect
    \/ CollectDone
    \/ Cancel
    \/ Shutdown

FairSpec == InitFair /\ [][NextBatch]_vars /\ Fairness

\* ================================================================ properties
\* the documented range of the k-th parameter of run, on the record p
InDocRange(k, p) ==
    CASE k = 1 -> p.h_tx__meter >= 0 /\ p.h_tx__meter <= H_MAX
      [] k = 2 -> p.h_rx__meter >= 0 /\ p.h_rx__meter <= H_MAX
      [] k = 3 -> p.f__mhz >= F_MIN /\ p.f__mhz <= F_MAX
      [] k = 4 -> p.P_tx__watt > 0
      [] k = 5 -> p.N_s >= N_S_MIN /\ p.N_s <= N_S_MAX
      [] k = 6 -> p.d__km <= D_MAX
      [] k = 7 -> p.epsilon >= 1
      [] k = 8 -> p.sigma > 0
      [] k = 9 -> p.pol.hi = 0 /\ p.pol.lo \in {0, 1}

InvalidFields(p) == {k \in 1..9 : ~InDocRange(k, p)}

FirstInvalid(p) ==
    CHOOSE k \in InvalidFields(p) : \A j \in InvalidFields(p) : k <= j

\* the single evaluation of element i: its parameters, the engine's status
\* for them and what run gives
ElemParams(i) == base @@ [d__km |-> distances[i]]

SingleStatus(i) == LFMF(CallArgs(ElemParams(i)), internal)

SingleOut(i) ==
    runStatusCheck(SingleStatus(i), LFMFRecord(CallArgs(ElemParams(i))))

Fails(i) == SingleStatus(i) # SUCCESS

\* the name of the field the selector result_index picks from the tuple
SelectedField ==
    FieldNames[IF result_index >= 0 THEN result_index + 1 ELSE result_index + 5]

\* C1: in every state, whatever the order the workers finish in, position i
\* of the list under construction holds the value element i's own future
\* got, and that value was computed from distances[i]: a number carries the
\* argument list with d__km = distances[i], the sentinel stands for a
\* failing distances[i].
IndexAligned ==
    \A i \in 1..Len(results) :
        /\ i <= N
        /\ fut[i].state = "finished"
        /\ results[i] = fut[i].out.value
        /\ results[i] # NaN => results[i][2][6] = distances[i]
        /\ results[i] = NaN => Fails(i)

OutOfOrderCompletionReturned ==
    /\ pc = "returned"
    /\ N = 3
    /\ distances[1] # distances[2]
    /\ Len(diag) = 2
    /\ diag[1].d = distances[2]
    /\ diag[2].d = distances[1]
    /\ results[3] # NaN
    /\ results[1] = NaN

\* C2: when evaluate_distances has returned, every position i of the sweep
\* has an entry: the selected field of the single evaluation of
\* distances[i] when that evaluation succeeds, the sentinel when it fails
\* with a validation or engine status.
BatchMatchesSingle ==
    pc = "returned" =>
        \A i \in 1..N :
            /\ i \in DOMAIN results
            /\ ~Fails(i) => /\ SingleOut(i).kind = "return"
                            /\ results[i] = TupleIndex(SingleOut(i).value, result_index)
            /\ Fails(i) => /\ SingleOut(i).exc = "LFMFError"
                           /\ results[i] = NaN

MixedSweepReturned ==
    /\ pc = "returned"
    /\ result_index = 3
    /\ \E i, j, k \in 1..N :
          /\ SingleStatus(i) = SUCCESS
          /\ SingleStatus(j) = 1005
          /\ SingleStatus(k) = 1009

\* C3: a validation or engine status of an element never aborts the batch
\* and never leaves evaluate_distances as an exception. An exception that
\* leaves is never an LFMFError: it is the pool constructor's ValueError or
\* the IndexError of a selector outside the tuple, raised for an element
\* whose evaluation succeeded. With a valid pool size and selector nothing
\* is raised or cancelled, and on return the sentinel is at the failing
\* positions only, every other position holding its single-evaluation
\* value.
FailureIsolated ==
    /\ exc.kind = "raise" =>
          /\ exc.exc # "LFMFError"
          /\ \/ exc.exc = "ValueError" /\ max_workers <= 0
             \/ /\ exc.exc = "IndexError"
                /\ ~InRange(result_index)
                /\ ~Fails(nxt)
    /\ (max_workers >= 1 /\ InRange(result_index)) =>
          /\ pc \notin {"raised", "cancel"}
          /\ exc.kind # "raise"
          /\ \A i \in 1..N : fut[i].state # "cancelled"
    /\ pc = "returned" =>
          \A i \in 1..N :
              Fails(i) =>
                  /\ results[i] = NaN
                  /\ \A j \in (1..N) \ {i} :
                         ~Fails(j) =>
                             /\ results[j] # NaN
                             /\ results[j] = <<SelectedField, CallArgs(ElemParams(j))>>

OnePoisonedElementReturned ==
    /\ pc = "returned"
    /\ N = 3
    /\ Fails(2)
    /\ ~Fails(1)
    /\ ~Fails(3)
    /\ results[2] = NaN
    /\ results[1] # NaN
    /\ results[3] # NaN

\* C4: whenever evaluate_distances returns, the returned list has exactly
\* as many elements as the sweep, for every sweep length from 0 up, every
\* pool size and every mix of succeeding and failing elements.
OutputLengthEqualsInput ==
    pc = "returned" => Len(results) = Len(distances)

LongMixedSweepReturned ==
    /\ pc = "returned"
    /\ N >= 3
    /\ max_workers = MaxWorkers
    /\ \E i, j \in 1..N : Fails(i) /\ ~Fails(j)
    /\ Len(results) = N

RECURSIVE SequentialOutput(_)
\* the list a one-by-one evaluation of elements 1..k in input order gives
SequentialOutput(k) ==
    IF k = 0 THEN <<>>
    ELSE Append(SequentialOutput(k - 1),
                IF SingleOut(k).kind = "return"
                THEN <<SelectedField, SingleOut(k).value[1][2]>> ELSE NaN)

\* C5: the returned list depends on the request alone: for a pool of one
\* worker and for a pool of K > 1 workers, under every schedule, it is the
\* list the one-by-one evaluation in input order gives; so the two pool
\* sizes return element-wise identical lists.
OutputIndependentOfPool ==
    (pc = "returned" /\ max_workers >= 1) => results = SequentialOutput(N)

ParallelOutOfOrderReturned ==
    /\ pc = "returned"
    /\ max_workers > 1
    /\ N = 2
    /\ Len(diag) = 2
    /\ distances[1] # distances[2]
    /\ diag[1].d = distances[2]

NoRetries ==
    /\ \A i \in 1..N : calls[i] <= 1
    /\ pc = "returned" => \A i \in 1..N : calls[i] = 1
    /\ r_calls <= 1
    /\ r_pc \in {"engine", "check", "done"} => r_calls = 1

AllFailedOnceReturned ==
    /\ pc = "returned"
    /\ N >= 2
    /\ \A i \in 1..N : Fails(i) /\ calls[i] = 1
    /\ \E i \in 1..N : SingleStatus(i) = 1009

\* C7: a single evaluation of a parameter set with one or more fields out
\* of range ends in exactly one LFMFError, whose code is 1000 + the position
\* (from 0) of the first invalid field in declaration order; later invalid
\* fields are not reported.
FirstInvalidFieldReported ==
    (r_pc = "done" /\ InvalidFields(args) # {}) =>
        /\ r_out.kind = "raise"
        /\ r_out.exc = "LFMFError"
        /\ r_out.code = ERROR_BASE + FirstInvalid(args) - 1
        /\ r_out.msg = error_messages[ERROR_BASE + FirstInvalid(args) - 1]

\* C8: in a single evaluation every nonzero engine status ends in an
\* LFMFError carrying that status and a message: the table's message for
\* 1000..1008, "UNKNOWN ERROR" for any other status; never a normal return.
NonzeroStatusRaises ==
    (r_pc = "done" /\ r_status # SUCCESS) =>
        /\ r_out.kind = "raise"
        /\ r_out.exc = "LFMFError"
        /\ r_out.code = r_status
        /\ (r_out.msg = "UNKNOWN ERROR") <=> (r_status \notin ERROR_BASE..ERROR_LAST)

UnknownStatusReached ==
    /\ r_pc = "done"
    /\ r_status = 1009
    /\ r_out.msg = "UNKNOWN ERROR"

\* C9: run returns a record iff the engine status is 0; a returned record
\* has its four fields, each the one the engine computed in this call; on a
\* nonzero status nothing of the record reaches the caller.
RecordOnlyOnSuccess ==
    r_pc = "done" =>
        /\ (r_out.kind = "return") <=> (r_status = SUCCESS)
        /\ r_out.kind = "return" =>
               /\ Len(r_out.value) = 4
               /\ \A k \in 1..4 : r_out.value[k] = <<FieldNames[k], r_call>>
        /\ r_status # SUCCESS => r_out.value = <<>>

FullRecordReturned ==
    /\ r_pc = "done"
    /\ r_out.kind = "return"
    /\ r_out.value[4] = <<"method", CallArgs(args)>>

\* the nine parameters of run in declaration order
ParamOrder ==
    <<"h_tx__meter", "h_rx__meter", "f__mhz", "P_tx__watt", "N_s", "d__km",
      "epsilon", "sigma", "pol">>

\* the argument list a holds the parameter record p unchanged: every value
\* in its declared position, the polarization with its full value
Unchanged(a, p) ==
    /\ Len(a) = 9
    /\ \A k \in 1..8 : a[k] = p[ParamOrder[k]]
    /\ PyInt(0, a[9]) = p.pol

\* C11: the parameter set reaches the engine unchanged. The argument list
\* of run's engine call holds the nine parameters in declaration order with
\* no value clamped or adjusted, and the engine call of batch element i
\* holds the baseline's eight values and distances[i] as the distance.
ParametersReachEngineUnchanged ==
    /\ r_pc \in {"engine", "check", "done"} => Unchanged(r_call, args)
    /\ \A w \in Workers :
          w_pc[w] \in {"engine", "check"} =>
              Unchanged(w_call[w], base @@ [d__km |-> distances[w_item[w]]])

\* C12 as stated: whichever of the nine fields the caller chooses to sweep,
\* the engine call of element i holds the element's value in that field and
\* the baseline's value in the others.
SweepsAnyChosenField ==
    \A k \in 1..9 :
        \A w \in Workers :
            w_pc[w] \in {"engine", "check"} =>
                /\ w_call[w][k] = distances[w_item[w]]
                /\ \A j \in (1..8) \ {k, 6} : w_call[w][j] = base[ParamOrder[j]]

\* C12 as amended: the swept field is the distance and no other. The engine
\* call of element i holds distances[i] as its sixth argument and, in the
\* other eight, the baseline's values as run passes them (the polarization
\* as a C int).
SweepsDistanceOnly ==
    \A w \in Workers :
        w_pc[w] \in {"engine", "check"} =>
            /\ w_call[w][6] = distances[w_item[w]]
            /\ \A j \in (1..8) \ {6} : w_call[w][j] = base[ParamOrder[j]]
            /\ w_call[w][9] = base.pol.lo

TwoDistancesInEngine ==
    /\ w_pc[1] = "engine"
    /\ w_pc[2] = "engine"
    /\ w_call[1][6] # w_call[2][6]
    /\ w_call[1][3] = w_call[2][3]

\* element i ends in an exception that is not an LFMFError: its run
\* succeeds and the selector is outside the tuple
UntypedFailure(i) == ~Fails(i) /\ ~InRange(result_index)

\* C13: a failure of an element that is not an LFMFError is never turned
\* into the sentinel. Its future holds the exception; the list never gets an
\* entry for it; evaluate_distances never returns a list when some element
\* of the sweep fails this way, and when it ends it ends by raising that
\* exception, the one of the first such element in input order.
UntypedFailurePropagates ==
    /\ \A i \in 1..N :
          (UntypedFailure(i) /\ fut[i].state = "finished") =>
              /\ fut[i].out.kind = "raise"
              /\ fut[i].out.exc = "IndexError"
              /\ Len(results) < i
    /\ (max_workers >= 1 /\ \E i \in 1..N : UntypedFailure(i)) =>
          /\ pc # "returned"
          /\ pc \in {"cancel", "shutdown", "raised"} =>
                /\ exc = fut[nxt].out
                /\ exc.exc = "IndexError"
                /\ UntypedFailure(nxt)
                /\ \A j \in 1..(nxt - 1) : ~UntypedFailure(j)

UntypedFailureRaisedAfterSentinel ==
    /\ pc = "raised"
    /\ exc.exc = "IndexError"
    /\ N = 3
    /\ results = <<NaN>>
    /\ UntypedFailure(2)

\* the workers whose engine call is in progress
InEngine == {w \in Workers : w_pc[w] = "engine"}

\* C14: in every state of a batch evaluation with pool size max_workers, at
\* most max_workers engine calls are in progress, and at most max_workers
\* elements are being evaluated, however many elements wait in the queue.
PoolBoundsEngineCalls ==
    pc # "off" =>
        /\ Cardinality(InEngine) <= max_workers
        /\ Cardinality({i \in 1..N : fut[i].state = "running"}) <= max_workers

PoolSaturatedQueueWaiting ==
    /\ max_workers >= 1
    /\ N > max_workers
    /\ Cardinality(InEngine) = max_workers
    /\ queue # <<>>

\* every worker's Result belongs to its own engine call: untouched while
\* the call is in progress, afterwards written by that call only; and the
\* value a future holds comes from the engine call of its own element
RecordPerCall ==
    /\ \A w \in Workers :
          /\ w_pc[w] = "engine" => w_res[w] = Result
          /\ w_pc[w] = "check" =>
                /\ w_call[w] = CallArgs(ElemParams(w_item[w]))
                /\ \A k \in 1..4 :
                       w_res[w][FieldNames[k]] \in
                           IF w_status[w] = SUCCESS
                           THEN {<<FieldNames[k], w_call[w]>>}
                           ELSE {<<"zero">>, <<FieldNames[k], w_call[w]>>}
    /\ \A i \in 1..N :
          (fut[i].state = "finished" /\ fut[i].out.kind = "return"
             /\ fut[i].out.value # NaN) =>
              fut[i].out.value = <<SelectedField, CallArgs(ElemParams(i))>>

\* C15: the engine is shared by the workers and never modified by a step,
\* and every engine call writes into the Result allocated for that call
\* alone: under every interleaving the fields an element returns come from
\* that element's own engine call.
EngineSharedRecordsPrivate ==
    [][internal' = internal /\ RecordPerCall']_vars

OtherCallReturnedMeanwhile ==
    /\ w_pc[1] = "check"
    /\ w_pc[2] = "check"
    /\ w_status[1] = SUCCESS
    /\ w_status[2] = SUCCESS
    /\ w_res[1] # w_res[2]

\* C16 as stated: for every sweep and every pool size >= 1, with every
\* engine call returning and the threads scheduled fairly,
\* evaluate_distances eventually returns its list.
BatchAlwaysReturns ==
    (pc = "start" /\ max_workers >= 1) ~> (pc = "returned")

\* C16 as amended: the batch eventually returns its list when no element
\* fails with an exception other than LFMFError; when one does, the batch
\* eventually ends by raising, and only then futures are cancelled.
BatchReturnsUnlessUntypedFailure ==
    /\ (pc = "start" /\ max_workers >= 1 /\ \A i \in 1..N : ~UntypedFailure(i))
          ~> (pc = "returned")
    /\ (pc = "start" /\ max_workers >= 1 /\ \E i \in 1..N : UntypedFailure(i))
          ~> (pc = "raised")
    /\ [](\A i \in 1..N : fut[i].state = "cancelled" =>
              \E j \in 1..N : UntypedFailure(j))

FullSweepReturnedAllFinished ==
    /\ pc = "returned"
    /\ N = MaxLen
    /\ max_workers = 1
    /\ Len(results) = N
    /\ \A i \in 1..N : ~Fails(i)

\* the number of printed lines that name the sweep value v
Lines(v) == Cardinality({k \in 1..Len(diag) : diag[k].d = v})

\* C17: exactly one line is printed for each element whose evaluation ended
\* in an LFMFError, naming the element's sweep value and its error, and none
\* for an element that succeeded; when the batch has returned, the lines
\* correspond one-to-one to the sentinel positions of the list, value by
\* value, in whatever order they were printed.
DiagnosticsMatchSentinels ==
    /\ \A k \in 1..Len(diag) :
          \E i \in 1..N :
              /\ fut[i].state = "finished"
              /\ Fails(i)
              /\ diag[k].d = distances[i]
              /\ diag[k].code = SingleStatus(i)
              /\ diag[k].msg = error_message(SingleStatus(i))
    /\ \A v \in DistanceValues :
          Lines(v) = Cardinality({i \in 1..N : /\ fut[i].state = "finished"
                                               /\ Fails(i)
                                               /\ distances[i] = v})
    /\ pc = "returned" =>
          \A v \in DistanceValues :
              Lines(v) = Cardinality({i \in 1..N : /\ results[i] = NaN
                                                   /\ distances[i] = v})

LaterFailurePrintedFirst ==
    /\ pc = "returned"
    /\ N = 3
    /\ Len(diag) = 2
    /\ results[2] # NaN
    /\ distances[1] # distances[3]
    /\ diag[1].d = distances[3]
    /\ diag[1].code # diag[2].code

\* the positions in ParamOrder of the parameters the message m names
FieldsNamed(m) ==
    {k \in 1..9 :
        \/ m = "VALIDATION ERROR: " \o ParamOrder[k] \o " out of range"
        \/ m = "VALIDATION ERROR: invalid value for " \o ParamOrder[k]}

\* C18: the lookup of run binds each code 1000..1008 to exactly one
\* parameter, distinct codes to distinct parameters, in declaration order:
\* the message of code 1000 + k names the parameter at position k (from 0)
\* and no other, and that is the message run raises for that status.
ErrorLookupBindsFields ==
    /\ \A c \in ERROR_BASE..ERROR_LAST :
          /\ c \in DOMAIN error_messages
          /\ FieldsNamed(error_messages[c]) = {c - ERROR_BASE + 1}
    /\ (r_pc = "done" /\ r_status \in ERROR_BASE..ERROR_LAST) =>
          /\ r_out.kind = "raise"
          /\ r_out.code = r_status
          /\ FieldsNamed(r_out.msg) = {r_status - ERROR_BASE + 1}

DistanceCodeRaised ==
    /\ r_pc = "done"
    /\ r_status = 1005
    /\ r_out.msg = "VALIDATION ERROR: d__km out of range"

====
